---- MODULE Spec2Model ----
(***************************************************************************)
(* Model of the slide-deck pipeline of backend/graph.py (six LangGraph     *)
(* nodes run in a fixed chain over one GraphState dictionary) and of the   *)
(* deterministic deck renderer of backend/presentation.py.                 *)
(*                                                                         *)
(* A Python str that the code only passes around (URLs, snippet contents,  *)
(* facts, queries, error messages) is a TLA+ string.  A str that the code  *)
(* takes apart (slide titles, bullets, the topic) is a sequence of         *)
(* one-character strings; the en dash U+2013 is the character EnDash.      *)
(* A Python dict is a function whose DOMAIN is the set of keys present.    *)
(***************************************************************************)
EXTENDS Integers, Sequences, FiniteSets, TLC

VARIABLES
    state,      \* the GraphState dict handed from node to node
    pc,         \* the node the graph runs next, "END", or "RAISED"
    trace,      \* the nodes run so far, each with how it ended
    calls,      \* the external calls (search tool, model) of the node run last
    deck        \* the .pptx file written by create_presentation_file, if any

vars == <<state, pc, trace, calls, deck>>

(***************************************************************************)
(* Bounds of the model.                                                    *)
(***************************************************************************)
MaxQueries == 2     \* longest list of sub-queries the model returns
MaxResults == 1     \* longest "results" list of one search response
MaxFacts == 2       \* longest fact list the summarizer model returns
MaxLen == 4         \* longest bullet / title of the renderer specification

EnDash == "u2013"

(***************************************************************************)
(* Generic helpers.                                                        *)
(***************************************************************************)
Range(s) == {s[i] : i \in 1..Len(s)}

SeqsUpTo(S, n) == UNION {[1..k -> S] : k \in 0..n}

\* list.extend over a list of lists
RECURSIVE Flatten(_)
Flatten(ss) == IF ss = <<>> THEN <<>> ELSE Head(ss) \o Flatten(Tail(ss))

\* Variant of Merge: the dict a node returns becomes the state.
Merge_replace(st, update) == update

\* LangGraph merges the dict a node returns into the state, key by key.
Merge(st, update) == update @@ st

(***************************************************************************)
(* Inputs of a run: the driver supplies topic, presenter_name and          *)
(* template_name; no other key of GraphState is present at the start.      *)
(***************************************************************************)
Topic == <<"a", "i", "!", " ">>
Presenter == "presenter"
Templates == {"Business_Corporate"}

(***************************************************************************)
(* expand_queries                                                          *)
(***************************************************************************)
AllQueries == <<"q1", "q2", "q3", "q4">>

\* What query_expander_llm.invoke may do: raise, or return a SubQueries.
QueryOutcomes ==
    {[kind |-> "raise"]} \cup
    {[kind |-> "ok", queries |-> SubSeq(AllQueries, 1, n)] : n \in 0..MaxQueries}

expand_queries_update(out) ==
    IF out.kind = "ok"
    THEN [sub_queries |-> out.queries]
    ELSE [error |-> "Failed to expand queries"]

expand_queries ==
    /\ pc = "expand_queries"
    /\ \E out \in QueryOutcomes :
        /\ state' = Merge(state, expand_queries_update(out))
        /\ calls' = <<[prompt |-> state.topic, out |-> out]>>
        /\ trace' = Append(trace, [node |-> "expand_queries",
                                   result |-> IF out.kind = "ok" THEN "ok" ELSE "error"])
    /\ pc' = "web_search"
    /\ UNCHANGED deck

(***************************************************************************)
(* web_search                                                              *)
(***************************************************************************)
\* An element of a "results" list that is not a dict.
NotADict == [not_a_dict |-> TRUE]

IsDict(res) == "not_a_dict" \notin DOMAIN res

ResultItems ==
    { [url |-> "u1", content |-> "c1"],
      [url |-> "u1", content |-> "c2"],
      [url |-> "u2", content |-> "c3"],
      [content |-> "c4"],
      NotADict }

\* What search_tool.invoke may do: raise, return something that is not a
\* dict, return a dict without "results", or return a dict with "results".
SearchResponses ==
    {[kind |-> "raise", results |-> <<>>],
     [kind |-> "not_a_dict", results |-> <<>>],
     [kind |-> "no_results_key", results |-> <<>>]} \cup
    {[kind |-> "ok", results |-> rs] : rs \in SeqsUpTo(ResultItems, MaxResults)}

HasUrl(res) == IsDict(res) /\ "url" \in DOMAIN res

\* One iteration of the loop body: what the query adds to all_results.
valid_results(resp) ==
    IF resp.kind = "ok" THEN SelectSeq(resp.results, HasUrl) ELSE <<>>

\* Variant of all_results: the try block around the whole loop, so the first
\* failing query ends the collection.
RECURSIVE all_results_abort(_)
all_results_abort(resps) ==
    IF resps = <<>> \/ Head(resps).kind = "raise" THEN <<>>
    ELSE valid_results(Head(resps)) \o all_results_abort(Tail(resps))

all_results(resps) == Flatten([i \in 1..Len(resps) |-> valid_results(resps[i])])

\* {res["url"]: res for res in all}: the keys in order of first insertion.
RECURSIVE DictKeys(_, _)
DictKeys(all, seen) ==
    IF all = <<>> THEN <<>>
    ELSE IF Head(all).url \in seen THEN DictKeys(Tail(all), seen)
    ELSE <<Head(all).url>> \o DictKeys(Tail(all), seen \cup {Head(all).url})

\* Variant of DictValue: the first value assigned to the key is kept.
DictValue_first(all, u) ==
    all[CHOOSE k \in 1..Len(all) :
            /\ all[k].url = u
            /\ \A j \in 1..(k-1) : all[j].url # u]

\* ... and the value a key ends with: the one assigned last.
DictValue(all, u) ==
    LET last == CHOOSE k \in 1..Len(all) :
                    /\ all[k].url = u
                    /\ \A j \in (k+1)..Len(all) : all[j].url # u
    IN all[last]

unique_results(all) ==
    LET keys == DictKeys(all, {})
    IN [i \in 1..Len(keys) |-> DictValue(all, keys[i])]

\* Variant of web_search_update: every element of every "results" list is
\* kept as it came, without the filter on dict-with-"url".
web_search_update_unfiltered(resps) ==
    [search_results |->
        Flatten([i \in 1..Len(resps) |->
                    IF resps[i].kind = "ok" THEN resps[i].results ELSE <<>>])]

web_search_update(resps) ==
    IF all_results(resps) = <<>>
    THEN [search_results |-> <<>>]
    ELSE [search_results |-> unique_results(all_results(resps))]

web_search ==
    /\ pc = "web_search"
    /\ IF "sub_queries" \notin DOMAIN state
       THEN \* state["sub_queries"] raises KeyError: the run ends with it
            /\ pc' = "RAISED"
            /\ trace' = Append(trace, [node |-> "web_search", result |-> "raised"])
            /\ calls' = <<>>
            /\ UNCHANGED <<state, deck>>
       ELSE \E resps \in [1..Len(state.sub_queries) -> SearchResponses] :
            /\ state' = Merge(state, web_search_update(resps))
            /\ calls' = [i \in 1..Len(resps) |->
                            [query |-> state.sub_queries[i], out |-> resps[i]]]
            /\ trace' = Append(trace, [node |-> "web_search", result |-> "ok"])
            /\ pc' = "plan_content"
            /\ UNCHANGED deck

(***************************************************************************)
(* plan_content                                                            *)
(***************************************************************************)
KeyPointsA == << <<"A", "-", "1">>, <<"B", ":", "2">>, <<"C", EnDash, "3">>, <<"D">> >>

\* A SlidePlan as the prompt asks for it: 4 key points.
PlanA == [title |-> <<"T">>,
          overview_title |-> <<"O">>,
          agenda_points |-> KeyPointsA,
          key_points |-> KeyPointsA,
          conclusion_title |-> <<"Z", " ", "-", " ", "e">>]

\* The schema does not enforce the number of key points: a plan with 3.
PlanB == [PlanA EXCEPT !.key_points = SubSeq(KeyPointsA, 1, 3),
                       !.agenda_points = SubSeq(KeyPointsA, 1, 3)]

PlanOutcomes == {[kind |-> "raise"], [kind |-> "ok", plan |-> PlanA],
                 [kind |-> "ok", plan |-> PlanB]}

\* state.get("search_results", [])
get_search_results(st) ==
    IF "search_results" \in DOMAIN st THEN st.search_results ELSE <<>>

\* The context placed in the planner prompt.
plan_context(st) ==
    LET search_results == get_search_results(st)
    IN IF search_results = <<>>
       THEN <<"General knowledge about topic">>
       ELSE [i \in 1..Len(search_results) |-> search_results[i].content]

plan_content_update(out) ==
    IF out.kind = "ok"
    THEN [slide_plan |-> out.plan]
    ELSE [error |-> "Failed to generate a valid presentation plan"]

plan_content ==
    /\ pc = "plan_content"
    /\ \E out \in PlanOutcomes :
        /\ state' = Merge(state, plan_content_update(out))
        /\ calls' = <<[prompt |-> plan_context(state), out |-> out]>>
        /\ trace' = Append(trace, [node |-> "plan_content",
                                   result |-> IF out.kind = "ok" THEN "ok" ELSE "error"])
    /\ pc' = "summarize_results"
    /\ UNCHANGED deck

(***************************************************************************)
(* summarize_results                                                       *)
(***************************************************************************)
\* The slide a fact is assigned to: a key point of the plan, or a title the
\* plan does not have.
FactTitles == {KeyPointsA[2], <<"?">>}

Facts == [fact : {"f1", "f2"}, source : {"u1"}, slide_title : FactTitles]

\* What summarizer_llm.invoke may do: raise, return None, return a FactList.
FactOutcomes ==
    {[kind |-> "raise"], [kind |-> "none"]} \cup
    {[kind |-> "ok", facts |-> fs] : fs \in SeqsUpTo(Facts, MaxFacts)}

EmptyDict == [t \in {} |-> <<>>]

ContextPoint(f) == [fact |-> f.fact, source |-> f.source]

StructuredContext(by_slide) == [context_by_slide |-> by_slide]

\* slide_titles = [plan.overview_title] + plan.key_points
slide_titles(plan) == <<plan.overview_title>> \o plan.key_points

\* Variant of bucket_facts: setdefault(title, []).append(...), which opens a
\* bucket for any title.
RECURSIVE bucket_facts_setdefault(_, _)
bucket_facts_setdefault(by_slide, facts) ==
    IF facts = <<>> THEN by_slide
    ELSE LET f == Head(facts)
         IN bucket_facts_setdefault(
                IF f.slide_title \in DOMAIN by_slide
                THEN [by_slide EXCEPT ![f.slide_title] = Append(@, ContextPoint(f))]
                ELSE (f.slide_title :> <<ContextPoint(f)>>) @@ by_slide,
                Tail(facts))

\* The loop over the facts: append to the bucket of a known title only.
RECURSIVE bucket_facts(_, _)
bucket_facts(by_slide, facts) ==
    IF facts = <<>> THEN by_slide
    ELSE LET f == Head(facts)
         IN bucket_facts(
                IF f.slide_title \in DOMAIN by_slide
                THEN [by_slide EXCEPT ![f.slide_title] = Append(@, ContextPoint(f))]
                ELSE by_slide,
                Tail(facts))

context_by_slide(plan, facts) ==
    bucket_facts([t \in Range(slide_titles(plan)) |-> <<>>], facts)

\* Variant of summarize_results_update: the except branch records the error
\* and returns no structured_context.
summarize_results_update_no_context(plan, out) ==
    IF out.kind = "raise"
    THEN [error |-> "Failed to generate structured summary."]
    ELSE [structured_context |->
            StructuredContext(context_by_slide(plan,
                IF out.kind = "ok" THEN out.facts ELSE <<>>))]

summarize_results_update(plan, out) ==
    IF out.kind = "raise"
    THEN [structured_context |-> StructuredContext(EmptyDict),
          error |-> "Failed to generate structured summary."]
    ELSE [structured_context |->
            StructuredContext(context_by_slide(plan,
                IF out.kind = "ok" THEN out.facts ELSE <<>>))]

summarize_results ==
    /\ pc = "summarize_results"
    /\ IF {"search_results", "slide_plan"} \subseteq DOMAIN state
       THEN \E out \in FactOutcomes :
            /\ state' = Merge(state, summarize_results_update(state.slide_plan, out))
            /\ calls' = <<[prompt |-> slide_titles(state.slide_plan), out |-> out]>>
            /\ trace' = Append(trace, [node |-> "summarize_results",
                                       result |-> IF out.kind = "raise" THEN "error" ELSE "ok"])
            /\ pc' = "generate_slide_content"
            /\ UNCHANGED deck
       ELSE \* state["search_results"] / state["slide_plan"] raises KeyError
            /\ pc' = "RAISED"
            /\ trace' = Append(trace, [node |-> "summarize_results", result |-> "raised"])
            /\ calls' = <<>>
            /\ UNCHANGED <<state, deck>>

(***************************************************************************)
(* generate_slide_content                                                  *)
(***************************************************************************)
\* Optional[List[str]]: None, or a list of URLs.
None == [is_none |-> TRUE, urls |-> <<>>]
Refs(urls) == [is_none |-> FALSE, urls |-> urls]

SlideContent(title, bullets, references) ==
    [title |-> title, bullets |-> bullets, references |-> references]

AlphaBullet ==
    <<"*", "*", "A", "l", "p", "h", "a", "*", "*", " ", EnDash, " ",
      "_", "_", "B", "e", "t", "a", "_", "_", " ", "g", "a", "m", "m", "a">>

\* Slides the content model may return; it picks the title itself.
GeneratedSlides ==
    { SlideContent(<<"G", ":", "x", "-", "y">>,
                   <<AlphaBullet, <<" ", " ", "s", "u", "b">> >>,
                   Refs(<<"u1", "u2", "u3">>)),
      SlideContent(<<"H">>, <<>>, None) }

\* What content_generator_llm.invoke may do: raise, or return a SlideContent.
ContentOutcomes ==
    {[kind |-> "raise"]} \cup {[kind |-> "ok", slide |-> c] : c \in GeneratedSlides}

\* structured_context_obj.context_by_slide if structured_context_obj else {}
structured_context_map(st) ==
    IF "structured_context" \in DOMAIN st
    THEN st.structured_context.context_by_slide
    ELSE EmptyDict

\* dict.get(key, default)
dict_get(d, key, default) == IF key \in DOMAIN d THEN d[key] ELSE default

ContentFailedBullet ==   \* "Content generation failed."
    <<"C", "o", "n", "t", "e", "n", "t", " ", "g", "e", "n", "e", "r", "a", "t", "i",
      "o", "n", " ", "f", "a", "i", "l", "e", "d", ".">>

SummaryFailedBullet ==   \* "Summary generation failed."
    <<"S", "u", "m", "m", "a", "r", "y", " ", "g", "e", "n", "e", "r", "a", "t", "i",
      "o", "n", " ", "f", "a", "i", "l", "e", "d", ".">>

\* try: append what the model returns; except: append the placeholder.
key_point_slide(slide_title, out) ==
    IF out.kind = "ok" THEN out.slide
    ELSE SlideContent(slide_title, <<ContentFailedBullet>>, Refs(<<>>))

conclusion_slide(plan, out) ==
    IF out.kind = "ok" THEN out.slide
    ELSE SlideContent(plan.conclusion_title, <<SummaryFailedBullet>>,
                      Refs(<<>>))

\* Variant of key_point_slides: "except: continue", a failed slide is left out.
RECURSIVE key_point_slides_skip(_, _, _)
key_point_slides_skip(acc, key_points, outs) ==
    IF key_points = <<>> THEN acc
    ELSE key_point_slides_skip(
            IF Head(outs).kind = "ok" THEN Append(acc, Head(outs).slide) ELSE acc,
            Tail(key_points), Tail(outs))

\* The loop over plan.key_points, appending one entry per key point.
RECURSIVE key_point_slides(_, _, _)
key_point_slides(acc, key_points, outs) ==
    IF key_points = <<>> THEN acc
    ELSE key_point_slides(Append(acc, key_point_slide(Head(key_points), Head(outs))),
                          Tail(key_points), Tail(outs))

\* Variant of all_slide_contents: the try block around the whole loop, so a
\* failed key point replaces every key-point slide by one placeholder.
all_slide_contents_one_try(plan, outs) ==
    LET n == Len(plan.key_points)
        head == <<SlideContent(plan.title, <<>>, Refs(<<>>)),
                  SlideContent(plan.overview_title, plan.agenda_points, Refs(<<>>))>>
        body == IF \E k \in 1..n : outs[k].kind = "raise"
                THEN [k \in 1..n |-> key_point_slide(plan.key_points[k], [kind |-> "raise"])]
                ELSE [k \in 1..n |-> outs[k].slide]
    IN Append(head \o body, conclusion_slide(plan, outs[n + 1]))

\* outs: the outcome of each model call, key points first, conclusion last.
all_slide_contents(plan, outs) ==
    LET n == Len(plan.key_points)
        head == <<SlideContent(plan.title, <<>>, Refs(<<>>)),
                  SlideContent(plan.overview_title, plan.agenda_points, Refs(<<>>))>>
        body == key_point_slides(head, plan.key_points, SubSeq(outs, 1, n))
    IN Append(body, conclusion_slide(plan, outs[n + 1]))

\* The prompts of the model calls: the slide title and the context given.
content_prompts(st) ==
    LET plan == st.slide_plan
        n == Len(plan.key_points)
    IN [i \in 1..(n + 1) |->
          IF i <= n
          THEN [title |-> plan.key_points[i],
                context |-> dict_get(structured_context_map(st), plan.key_points[i], <<>>)]
          ELSE [title |-> plan.conclusion_title,
                context |-> [k \in 1..Len(st.search_results) |->
                                st.search_results[k].content]]]

generate_slide_content ==
    /\ pc = "generate_slide_content"
    /\ IF {"slide_plan", "search_results"} \subseteq DOMAIN state
       THEN \E outs \in [1..(Len(state.slide_plan.key_points) + 1) -> ContentOutcomes] :
            /\ state' = Merge(state,
                    [slide_contents |-> all_slide_contents(state.slide_plan, outs)])
            /\ calls' = [i \in 1..Len(outs) |->
                            [prompt |-> content_prompts(state)[i], out |-> outs[i]]]
            /\ trace' = Append(trace, [node |-> "generate_slide_content", result |-> "ok"])
            /\ pc' = "create_presentation"
            /\ UNCHANGED deck
       ELSE \* state["slide_plan"] / state["search_results"] raises KeyError
            /\ pc' = "RAISED"
            /\ trace' = Append(trace, [node |-> "generate_slide_content",
                                       result |-> "raised"])
            /\ calls' = <<>>
            /\ UNCHANGED <<state, deck>>

(***************************************************************************)
(* presentation.py: the deck renderer                                      *)
(***************************************************************************)
RGBColor(r, g, b) == <<r, g, b>>

THEMES ==
    [Minimalist_Dark |->
        [background |-> RGBColor(18, 18, 18), primary |-> RGBColor(240, 240, 240),
         secondary |-> RGBColor(0, 150, 255), accent |-> RGBColor(130, 130, 130)],
     Business_Corporate |->
        [background |-> RGBColor(245, 245, 245), primary |-> RGBColor(10, 30, 60),
         secondary |-> RGBColor(0, 123, 255), accent |-> RGBColor(108, 117, 125)],
     Education_Creative |->
        [background |-> RGBColor(255, 253, 248), primary |-> RGBColor(50, 50, 50),
         secondary |-> RGBColor(255, 110, 60), accent |-> RGBColor(120, 120, 120)],
     Historical_Vintage |->
        [background |-> RGBColor(245, 245, 220), primary |-> RGBColor(80, 50, 20),
         secondary |-> RGBColor(139, 69, 19), accent |-> RGBColor(160, 82, 45)],
     Technology_Futuristic |->
        [background |-> RGBColor(10, 0, 25), primary |-> RGBColor(0, 255, 127),
         secondary |-> RGBColor(190, 70, 255), accent |-> RGBColor(105, 105, 105)],
     Environmental_Natural |->
        [background |-> RGBColor(240, 255, 240), primary |-> RGBColor(0, 80, 0),
         secondary |-> RGBColor(34, 139, 34), accent |-> RGBColor(107, 142, 35)],
     default |->
        [background |-> RGBColor(255, 255, 255), primary |-> RGBColor(0, 0, 0),
         secondary |-> RGBColor(100, 100, 100), accent |-> RGBColor(150, 150, 150)]]

THEME_FONTS ==
    [Minimalist_Dark |-> [title |-> "Segoe UI", body |-> "Calibri"],
     Business_Corporate |-> [title |-> "Arial", body |-> "Helvetica"],
     Education_Creative |-> [title |-> "Century Gothic", body |-> "Trebuchet MS"],
     Historical_Vintage |-> [title |-> "Garamond", body |-> "Georgia"],
     Technology_Futuristic |-> [title |-> "Tw Cen MT", body |-> "Verdana"],
     Environmental_Natural |-> [title |-> "Rockwell", body |-> "Calibri"],
     default |-> [title |-> "Segoe UI", body |-> "Calibri"]]

OUTPUT_DIR == "outputs"

\* Variant of resolve_theme: the fallback is the first entry of each table.
resolve_theme_first_entry(template_name) ==
    [colors |-> dict_get(THEMES, template_name, THEMES["Minimalist_Dark"]),
     fonts |-> dict_get(THEME_FONTS, template_name, THEME_FONTS["Minimalist_Dark"])]

\* THEMES.get(template_name, THEMES["default"]) and the same for the fonts
resolve_theme(template_name) ==
    [colors |-> dict_get(THEMES, template_name, THEMES["default"]),
     fonts |-> dict_get(THEME_FONTS, template_name, THEME_FONTS["default"])]

\* ---- str methods, on sequences of characters
Whitespace == {" ", "\n", "\t"}

RECURSIVE lstrip(_)
lstrip(s) == IF s # <<>> /\ Head(s) \in Whitespace THEN lstrip(Tail(s)) ELSE s

RECURSIVE rstrip(_)
rstrip(s) ==
    IF s # <<>> /\ s[Len(s)] \in Whitespace THEN rstrip(SubSeq(s, 1, Len(s) - 1)) ELSE s

strip(s) == rstrip(lstrip(s))

startswith(s, prefix) ==
    Len(s) >= Len(prefix) /\ SubSeq(s, 1, Len(prefix)) = prefix

endswith(s, suffix) ==
    Len(s) >= Len(suffix) /\ SubSeq(s, Len(s) - Len(suffix) + 1, Len(s)) = suffix

\* Variant of slice_2_m2: s[2:], the closing marker is kept.
slice_2(s) == SubSeq(s, 3, Len(s))

\* s[2:-2]
slice_2_m2(s) == SubSeq(s, 3, Len(s) - 2)

UpperOf == [a |-> "A", i |-> "I", l |-> "L", p |-> "P", h |-> "H", e |-> "E",
            t |-> "T", g |-> "G", m |-> "M", s |-> "S", u |-> "U", b |-> "B",
            x |-> "X", y |-> "Y"]

upper(s) == [k \in 1..Len(s) |-> dict_get(UpperOf, s[k], s[k])]

Alnum == DOMAIN UpperOf \cup {UpperOf[c] : c \in DOMAIN UpperOf} \cup
         {"0", "1", "2", "3", "4", "5", "6", "7", "8", "9"}

\* ---- the title slide
TitleMax == 60

Ellipsis == <<".", ".", ".">>

title_slide(topic, presenter_name, theme, slide_contents) ==
    LET title_text == IF slide_contents # <<>> THEN slide_contents[1].title ELSE topic
    IN [kind |-> "title",
        background |-> theme.colors.background,
        title |-> [text |-> IF Len(title_text) > TitleMax
                            THEN SubSeq(title_text, 1, TitleMax) \o Ellipsis
                            ELSE title_text,
                   font |-> theme.fonts.title, bold |-> TRUE,
                   color |-> theme.colors.primary],
        subtitle |-> [presented_by |-> presenter_name, font |-> theme.fonts.body,
                      color |-> theme.colors.accent]]

\* ---- the title of a content slide: re.split(r'[:\-–]', title, 1)
TitleDelimiters == {":", "-", EnDash}

\* Variant of title_parts: re.split without maxsplit, a part per delimiter.
RECURSIVE title_parts_all(_)
title_parts_all(title) ==
    LET at == {k \in 1..Len(title) : title[k] \in TitleDelimiters}
    IN IF at = {} THEN <<title>>
       ELSE LET first == CHOOSE k \in at : \A j \in at : k <= j
            IN <<SubSeq(title, 1, first - 1)>>
               \o title_parts_all(SubSeq(title, first + 1, Len(title)))

title_parts(title) ==
    LET at == {k \in 1..Len(title) : title[k] \in TitleDelimiters}
    IN IF at = {} THEN <<title>>
       ELSE LET first == CHOOSE k \in at : \A j \in at : k <= j
            IN <<SubSeq(title, 1, first - 1), SubSeq(title, first + 1, Len(title))>>

title_runs(title, theme) ==
    LET parts == title_parts(title)
        run1 == [text |-> strip(parts[1]), font |-> theme.fonts.title, bold |-> TRUE,
                 color |-> theme.colors.primary]
    IN IF Len(parts) > 1
       THEN <<run1, [text |-> <<" ", "-", " ">> \o strip(parts[2]),
                     font |-> theme.fonts.title, bold |-> TRUE,
                     color |-> theme.colors.secondary]>>
       ELSE <<run1>>

\* ---- the bullets: re.split(r'(\*\*.*?\*\*|__.*?__)', clean_text)
\* The last index of the match of the pattern that starts at index k, or 0:
\* a doubled marker, the shortest stretch without a newline, the same doubled
\* marker again.
match_end(s, k) ==
    IF k + 1 <= Len(s) /\ s[k] \in {"*", "_"} /\ s[k + 1] = s[k]
    THEN LET closers == {j \in (k + 2)..(Len(s) - 1) :
                            /\ s[j] = s[k] /\ s[j + 1] = s[k]
                            /\ \A n \in (k + 2)..(j - 1) : s[n] # "\n"}
         IN IF closers = {} THEN 0
            ELSE (CHOOSE j \in closers : \A n \in closers : j <= n) + 1
    ELSE 0

\* Scan from index k; the text not yet emitted starts at index from.
RECURSIVE split_from(_, _, _)
split_from(s, k, from) ==
    IF k > Len(s) THEN <<SubSeq(s, from, Len(s))>>
    ELSE IF match_end(s, k) > 0
         THEN <<SubSeq(s, from, k - 1), SubSeq(s, k, match_end(s, k))>>
              \o split_from(s, match_end(s, k) + 1, match_end(s, k) + 1)
         ELSE split_from(s, k + 1, from)

re_split_markup(s) == split_from(s, 1, 1)

\* The body of "for seg in segments": one run per segment.
segment_run(seg, theme) ==
    LET base == [text |-> seg, font |-> theme.fonts.body, bold |-> FALSE,
                 underline |-> FALSE, color |-> theme.colors.primary]
    IN IF startswith(seg, <<"*", "*">>) /\ endswith(seg, <<"*", "*">>)
       THEN [base EXCEPT !.text = slice_2_m2(seg), !.bold = TRUE,
                         !.color = theme.colors.secondary]
       ELSE IF startswith(seg, <<"_", "_">>) /\ endswith(seg, <<"_", "_">>)
       THEN [base EXCEPT !.text = slice_2_m2(seg), !.underline = TRUE]
       ELSE base

bullet_runs(bullet_text, theme) ==
    LET segments == re_split_markup(strip(bullet_text))
    IN [k \in 1..Len(segments) |-> segment_run(segments[k], theme)]

bullet_paragraph(bullet_text, theme) ==
    [level |-> IF startswith(bullet_text, <<" ", " ">>) THEN 1 ELSE 0,
     runs |-> bullet_runs(bullet_text, theme)]

\* ---- references: at most the first two, each a hyperlink run
MaxRefs == 2

reference_links(references) ==
    IF ~references.is_none /\ references.urls # <<>>
    THEN SubSeq(references.urls, 1,
                IF Len(references.urls) < MaxRefs THEN Len(references.urls) ELSE MaxRefs)
    ELSE <<>>

\* ---- the page badge: white text when sum(secondary_color) < 382
DarkThreshold == 382

White == RGBColor(255, 255, 255)
Black == RGBColor(0, 0, 0)

badge_text_color(secondary) ==
    IF secondary[1] + secondary[2] + secondary[3] < DarkThreshold THEN White ELSE Black

\* ---- one slide of "for i, slide_data in enumerate(slide_contents[1:], start=1)"
content_slide(i, slide_data, topic, theme) ==
    [kind |-> "content",
     background |-> theme.colors.background,
     header |-> upper(topic),
     title |-> title_runs(slide_data.title, theme),
     body |-> [j \in 1..Len(slide_data.bullets) |->
                    bullet_paragraph(slide_data.bullets[j], theme)],
     references |-> reference_links(slide_data.references),
     page |-> i + 1,
     badge |-> [fill |-> theme.colors.secondary,
                color |-> badge_text_color(theme.colors.secondary)]]

closing_slide(theme) ==
    [kind |-> "closing",
     background |-> theme.colors.background,
     title |-> [text |-> "Thank You", font |-> theme.fonts.title,
                color |-> theme.colors.secondary],
     subtitle |-> [text |-> "Questions & Discussion", font |-> theme.fonts.body,
                   color |-> theme.colors.accent]]

\* "".join(x for x in topic if x.isalnum() or x in " -_").rstrip()
safe_topic(topic) ==
    rstrip(SelectSeq(topic, LAMBDA x : x \in Alnum \cup {" ", "-", "_"}))

\* Variant of create_presentation_file: the content loop runs over all of
\* slide_contents rather than slide_contents[1:].
create_presentation_file_all(topic, presenter_name, template_name, slide_contents) ==
    LET theme == resolve_theme(template_name)
    IN [saved |-> TRUE,
        path |-> [dir |-> OUTPUT_DIR, safe_topic |-> safe_topic(topic),
                  template_name |-> template_name],
        slides |-> <<title_slide(topic, presenter_name, theme, slide_contents)>>
                   \o [i \in 1..Len(slide_contents) |->
                          content_slide(i, slide_contents[i], topic, theme)]
                   \o <<closing_slide(theme)>>]

\* The presentation written to file_path: the slides in the order added.
create_presentation_file(topic, presenter_name, template_name, slide_contents) ==
    LET theme == resolve_theme(template_name)
    IN [saved |-> TRUE,
        path |-> [dir |-> OUTPUT_DIR, safe_topic |-> safe_topic(topic),
                  template_name |-> template_name],
        slides |-> <<title_slide(topic, presenter_name, theme, slide_contents)>>
                   \o [i \in 1..(Len(slide_contents) - 1) |->
                          content_slide(i, slide_contents[i + 1], topic, theme)]
                   \o <<closing_slide(theme)>>]

(***************************************************************************)
(* create_presentation                                                     *)
(***************************************************************************)
\* The file system may refuse the write: prs.save then raises, and the node
\* catches it.
create_presentation_update(saved, file) ==
    IF saved THEN [presentation_path |-> file.path]
    ELSE [error |-> "Failed to create the .pptx file"]

create_presentation ==
    /\ pc = "create_presentation"
    /\ IF {"topic", "presenter_name", "template_name", "slide_contents"}
            \subseteq DOMAIN state
       THEN \E saved \in BOOLEAN :
            LET file == create_presentation_file(state.topic, state.presenter_name,
                            state.template_name, state.slide_contents)
            IN /\ state' = Merge(state, create_presentation_update(saved, file))
               /\ deck' = IF saved THEN file ELSE deck
               /\ trace' = Append(trace, [node |-> "create_presentation",
                                          result |-> IF saved THEN "ok" ELSE "error"])
       ELSE \* a KeyError inside the try block is caught like any other
            /\ state' = Merge(state, create_presentation_update(FALSE, deck))
            /\ trace' = Append(trace, [node |-> "create_presentation", result |-> "error"])
            /\ UNCHANGED deck
    /\ calls' = <<>>
    /\ pc' = "END"

(***************************************************************************)
(* The graph                                                               *)
(***************************************************************************)
NoFile == [saved |-> FALSE]

Init ==
    /\ \E t \in Templates :
        state = [topic |-> Topic, presenter_name |-> Presenter, template_name |-> t]
    /\ pc = "expand_queries"
    /\ trace = <<>>
    /\ calls = <<>>
    /\ deck = NoFile

Next ==
    \/ expand_queries
    \/ web_search
    \/ plan_content
    \/ summarize_results
    \/ generate_slide_content
    \/ create_presentation

Spec == Init /\ [][Next]_vars

(***************************************************************************)
(* The renderer on its own: create_presentation entered with the state of  *)
(* a run in which every earlier node succeeded and the content model       *)
(* returned, for the first key point, a slide whose title, bullet and      *)
(* references are drawn from bounded sets.                                  *)
(***************************************************************************)
BulletAlphabet == {"*", "_", "a", " ", "\n"}
TitleAlphabet == {":", "-", EnDash, "a", " "}

RenderBullets == SeqsUpTo(BulletAlphabet, MaxLen) \cup {AlphaBullet}
RenderTitles == SeqsUpTo(TitleAlphabet, MaxLen)
\* Every theme of the tables, and names that are not keys of them (dict lookup
\* is exact: a key in another case is no key).
RenderTemplates == DOMAIN THEMES \cup {"No_Such_Theme", "minimalist_dark", ""}

FixedSlide == SlideContent(<<"H">>, <<>>, None)

RenderInputs ==
    {[template_name |-> "Business_Corporate",
      slide |-> SlideContent(<<"G">>, <<b>>, Refs(<<"u1">>))] : b \in RenderBullets}
    \cup
    {[template_name |-> "Business_Corporate",
      slide |-> SlideContent(t, <<>>, None)] : t \in RenderTitles}
    \cup
    {[template_name |-> n, slide |-> FixedSlide] : n \in RenderTemplates}

RenderOuts(slide) ==
    [i \in 1..5 |-> [kind |-> "ok", slide |-> IF i = 1 THEN slide ELSE FixedSlide]]

RenderState(in) ==
    [topic |-> Topic, presenter_name |-> Presenter, template_name |-> in.template_name,
     sub_queries |-> <<>>, search_results |-> <<>>, slide_plan |-> PlanA,
     structured_context |-> StructuredContext(context_by_slide(PlanA, <<>>)),
     slide_contents |-> all_slide_contents(PlanA, RenderOuts(in.slide))]

RenderInit ==
    /\ \E in \in RenderInputs :
        /\ state = RenderState(in)
        /\ calls = [i \in 1..5 |-> [prompt |-> content_prompts(RenderState(in))[i],
                                    out |-> RenderOuts(in.slide)[i]]]
    /\ pc = "create_presentation"
    /\ trace = [i \in 1..5 |->
                  [node |-> <<"expand_queries", "web_search", "plan_content",
                              "summarize_results", "generate_slide_content">>[i],
                   result |-> "ok"]]
    /\ deck = NoFile

RenderNext == create_presentation

SpecRender == RenderInit /\ [][RenderNext]_vars

(***************************************************************************)
(* Properties                                                              *)
(***************************************************************************)
\* The search results web_search collected, in input order, read from the
\* responses the search tool gave.
Collected == all_results([i \in 1..Len(calls) |-> calls[i].out])

AfterWebSearch == pc = "plan_content"

\* C1: web_search deduplication. Whatever the search tool answered, the
\* search_results written hold exactly one record per distinct URL of the
\* collected results, and the record of a URL is the last one collected.
C1_DedupLastWins ==
    AfterWebSearch =>
        LET out == state.search_results
        IN /\ \A i, j \in 1..Len(out) : i # j => out[i].url # out[j].url
           /\ {out[i].url : i \in 1..Len(out)} =
              {Collected[k].url : k \in 1..Len(Collected)}
           /\ \A i \in 1..Len(out) :
                \E k \in 1..Len(Collected) :
                    /\ Collected[k] = out[i]
                    /\ \A j \in (k + 1)..Len(Collected) : Collected[j].url # out[i].url

\* A URL was collected twice, with different records.
C1_Witness ==
    /\ AfterWebSearch
    /\ \E k, j \in 1..Len(Collected) :
        k < j /\ Collected[k].url = Collected[j].url /\ Collected[k] # Collected[j]

AfterSummarize == pc = "generate_slide_content"

AllowedTitles(plan) == {plan.overview_title} \cup Range(plan.key_points)

\* The facts the summarizer model returned (none when it raised or gave None).
ReturnedFacts == IF calls[1].out.kind = "ok" THEN calls[1].out.facts ELSE <<>>

\* C2: bucketing closure. In the StructuredContext summarize_results returns,
\* on success or failure, every key is the overview title or a key point of
\* the plan, and each bucket holds exactly the facts assigned to its title, in
\* order: a fact assigned to any other title is in no bucket.
C2_BucketingClosure ==
    AfterSummarize =>
        LET by_slide == state.structured_context.context_by_slide
            matching(t) == SelectSeq(ReturnedFacts, LAMBDA f : f.slide_title = t)
        IN /\ DOMAIN by_slide \subseteq AllowedTitles(state.slide_plan)
           /\ \A t \in DOMAIN by_slide :
                by_slide[t] = [k \in 1..Len(matching(t)) |-> ContextPoint(matching(t)[k])]

\* The model returned a fact for a title of the plan and one for a foreign title.
C2_Witness ==
    /\ AfterSummarize
    /\ \E a, b \in 1..Len(ReturnedFacts) :
        /\ ReturnedFacts[a].slide_title \in AllowedTitles(state.slide_plan)
        /\ ReturnedFacts[b].slide_title \notin AllowedTitles(state.slide_plan)

AfterGenerate == pc = "create_presentation"

NoRefs == Refs(<<>>)

\* The placeholder entries of a key-point slide and of the conclusion slide.
KeyPointPlaceholder(title) == SlideContent(title, <<ContentFailedBullet>>, NoRefs)
ConclusionPlaceholder(title) == SlideContent(title, <<SummaryFailedBullet>>, NoRefs)

\* C3: slide count. For a plan with exactly 4 key points, whatever the 5 model
\* calls do, slide_contents has exactly 7 entries: the title slide, the
\* overview slide, one entry per key point in plan order (what the call for
\* that key point returned, or its placeholder), and the conclusion entry.
C3_SevenSlides ==
    (AfterGenerate /\ Len(state.slide_plan.key_points) = 4) =>
        LET plan == state.slide_plan
            sc == state.slide_contents
        IN /\ Len(sc) = 7
           /\ Len(calls) = 5
           /\ sc[1] = SlideContent(plan.title, <<>>, NoRefs)
           /\ sc[2] = SlideContent(plan.overview_title, plan.agenda_points, NoRefs)
           /\ \A k \in 1..4 :
                /\ calls[k].prompt.title = plan.key_points[k]
                /\ sc[2 + k] = IF calls[k].out.kind = "ok" THEN calls[k].out.slide
                               ELSE KeyPointPlaceholder(plan.key_points[k])
           /\ calls[5].prompt.title = plan.conclusion_title
           /\ sc[7] = IF calls[5].out.kind = "ok" THEN calls[5].out.slide
                      ELSE ConclusionPlaceholder(plan.conclusion_title)

\* A 4-key-point plan with some model calls failing and some succeeding.
C3_Witness ==
    /\ AfterGenerate
    /\ Len(state.slide_plan.key_points) = 4
    /\ \E a, b \in 1..Len(calls) : calls[a].out.kind = "raise" /\ calls[b].out.kind = "ok"

Rendered == pc = "END" /\ deck.saved

\* The runs of the first bullet of the first key-point slide (slide 3 of the
\* deck), when that bullet is "**Alpha** - __Beta__ gamma" with an en dash.
AlphaRendered ==
    /\ Rendered
    /\ Len(state.slide_contents) >= 3
    /\ state.slide_contents[3].bullets = <<AlphaBullet>>

AlphaRuns == deck.slides[3].body[1].runs

Plain(run) == ~run.bold /\ ~run.underline
BoldOnly(run) == run.bold /\ ~run.underline
UnderlinedOnly(run) == ~run.bold /\ run.underline

\* C4 as stated: the bullet is tokenized into exactly 3 runs, bold "Alpha",
\* underlined "Beta" and plain " gamma".
C4_ThreeRuns ==
    AlphaRendered =>
        /\ Len(AlphaRuns) = 3
        /\ BoldOnly(AlphaRuns[1]) /\ AlphaRuns[1].text = <<"A", "l", "p", "h", "a">>
        /\ UnderlinedOnly(AlphaRuns[2]) /\ AlphaRuns[2].text = <<"B", "e", "t", "a">>
        /\ Plain(AlphaRuns[3]) /\ AlphaRuns[3].text = <<" ", "g", "a", "m", "m", "a">>

\* C4 amended: the bullet is tokenized into exactly 5 runs: an empty plain run
\* (the text before the first marker), bold "Alpha", the plain separator
\* " - " (space, en dash, space), underlined "Beta", and plain " gamma" with
\* its leading space.
C4_FiveRuns ==
    AlphaRendered =>
        /\ Len(AlphaRuns) = 5
        /\ Plain(AlphaRuns[1]) /\ AlphaRuns[1].text = <<>>
        /\ BoldOnly(AlphaRuns[2]) /\ AlphaRuns[2].text = <<"A", "l", "p", "h", "a">>
        /\ Plain(AlphaRuns[3]) /\ AlphaRuns[3].text = <<" ", EnDash, " ">>
        /\ UnderlinedOnly(AlphaRuns[4]) /\ AlphaRuns[4].text = <<"B", "e", "t", "a">>
        /\ Plain(AlphaRuns[5]) /\ AlphaRuns[5].text = <<" ", "g", "a", "m", "m", "a">>

C4_Witness == AlphaRendered

FourKeyPoints ==
    /\ "slide_plan" \in DOMAIN state
    /\ Len(state.slide_plan.key_points) = 4

\* C5 as stated: the deck rendered from the 7 entries of a 4-key-point plan
\* has exactly 9 slides.
C5_NineSlides == (Rendered /\ FourKeyPoints) => Len(deck.slides) = 9

\* C5 amended: the deck rendered from the 7 entries of a 4-key-point plan has
\* exactly 8 slides: the title slide (from entry 1), one content slide for
\* each of entries 2..7, and the closing slide.
C5_EightSlides ==
    (Rendered /\ FourKeyPoints) =>
        /\ Len(state.slide_contents) = 7
        /\ Len(deck.slides) = 8
        /\ deck.slides[1].kind = "title"
        /\ \A i \in 2..7 : deck.slides[i].kind = "content"
        /\ deck.slides[8].kind = "closing"

\* A rendered run with 0 search results and every fact bucket empty.
C5_Witness ==
    /\ Rendered /\ FourKeyPoints
    /\ state.search_results = <<>>
    /\ DOMAIN state.structured_context.context_by_slide # {}
    /\ \A t \in DOMAIN state.structured_context.context_by_slide :
            state.structured_context.context_by_slide[t] = <<>>

AIStages == {"expand_queries", "plan_content", "summarize_results",
             "generate_slide_content"}

\* The model call of the node failed and the node returned an error value.
ModelCallFailed(node) ==
    \E i \in 1..Len(trace) : trace[i] = [node |-> node, result |-> "error"]

\* C6: failure containment across AI stages. Once the model call of an AI
\* stage has failed (and was caught), no later stage raises: the run is never
\* ended by an exception.
C6_FailureContained ==
    (\E node \in AIStages : ModelCallFailed(node)) => pc # "RAISED"

RunEnded == pc \in {"END", "RAISED"}

\* C7: exit value. A run that has ended ended at END, with a final state that
\* carries a presentation path or an error message.
C7_ExitValue ==
    RunEnded =>
        /\ pc = "END"
        /\ {"presentation_path", "error"} \cap DOMAIN state # {}

\* The outcomes of the model calls of generate_slide_content, as logged.
ContentOuts == [k \in 1..Len(calls) |-> calls[k].out]

\* C8: per-slide failure isolation. After generate_slide_content, for every
\* model call k that failed (a key point or the conclusion), entry 2+k is the
\* placeholder with the plan's title for that slide, one fixed failure bullet
\* and no references, and every other entry is what it is in the run where
\* call k returned a slide instead.
C8_FailureIsolated ==
    AfterGenerate =>
        LET plan == state.slide_plan
            n == Len(plan.key_points)
            sc == state.slide_contents
        IN /\ Len(sc) = n + 3
           /\ \A k \in 1..(n + 1) :
                ContentOuts[k].kind = "raise" =>
                    /\ sc[2 + k] = IF k <= n
                                   THEN KeyPointPlaceholder(plan.key_points[k])
                                   ELSE ConclusionPlaceholder(plan.conclusion_title)
                    /\ \A g \in GeneratedSlides :
                        LET other == all_slide_contents(plan,
                                [ContentOuts EXCEPT ![k] = [kind |-> "ok", slide |-> g]])
                        IN /\ Len(other) = Len(sc)
                           /\ \A j \in 1..Len(sc) : j # 2 + k => other[j] = sc[j]

\* One call failed and the calls before and after it returned slides.
C8_Witness ==
    /\ AfterGenerate
    /\ Len(calls) = 5
    /\ ContentOuts[2].kind = "raise"
    /\ ContentOuts[5].kind = "raise"
    /\ \A k \in {1, 3, 4} : ContentOuts[k].kind = "ok"

SummaryFailed == ModelCallFailed("summarize_results")

\* C9: a Fact Distiller failure is not fatal. Once the summarize_results model
\* call has failed: the state holds an empty StructuredContext, and the error
\* note until create_presentation has run; no node raises;
\* generate_slide_content gives every key-point call an empty fact list; and
\* create_presentation runs and writes the deck whenever the file can be saved.
C9_SummaryFailureNotFatal ==
    SummaryFailed =>
        /\ pc # "RAISED"
        /\ "structured_context" \in DOMAIN state
        /\ state.structured_context = StructuredContext(EmptyDict)
        /\ "error" \in DOMAIN state
        /\ pc # "END" => state.error = "Failed to generate structured summary."
        /\ AfterGenerate =>
            /\ Len(calls) = Len(state.slide_plan.key_points) + 1
            /\ \A k \in 1..Len(state.slide_plan.key_points) : calls[k].prompt.context = <<>>
        /\ pc = "END" =>
            /\ trace[Len(trace)].node = "create_presentation"
            /\ trace[Len(trace)].result = "ok" =>
                /\ deck.saved
                /\ Len(deck.slides) = Len(state.slide_contents) + 1
                /\ state.presentation_path = deck.path

\* The summarizer failed and the run went on to write the deck.
C9_Witness ==
    /\ SummaryFailed
    /\ Rendered
    /\ "presentation_path" \in DOMAIN state

\* C10: search failure containment. After web_search, whichever search calls
\* failed: every query of sub_queries was issued, in order; every record with
\* a URL returned for a query that did not fail has its URL in
\* search_results; no error is recorded; and when every call failed
\* search_results is empty.
C10_SearchFailureContained ==
    AfterWebSearch =>
        LET out == state.search_results
        IN /\ [k \in 1..Len(calls) |-> calls[k].query] = state.sub_queries
           /\ \A k \in 1..Len(calls) :
                calls[k].out.kind = "ok" =>
                    \A r \in 1..Len(calls[k].out.results) :
                        HasUrl(calls[k].out.results[r]) =>
                            \E i \in 1..Len(out) : out[i].url = calls[k].out.results[r].url
           /\ "error" \notin DOMAIN state
           /\ trace[Len(trace)] = [node |-> "web_search", result |-> "ok"]
           /\ (\A k \in 1..Len(calls) : calls[k].out.kind = "raise") => out = <<>>

\* The first search call failed and a later one returned a record with a URL.
C10_Witness ==
    /\ AfterWebSearch
    /\ Len(calls) >= 2
    /\ calls[1].out.kind = "raise"
    /\ \E k \in 2..Len(calls) :
        /\ calls[k].out.kind = "ok"
        /\ \E r \in 1..Len(calls[k].out.results) : HasUrl(calls[k].out.results[r])

\* C11: URL-key filter. In every state, whatever the queries and responses
\* were, each record of search_results is a mapping with a "url" key, and is
\* one of the records the search tool returned; so the only records a later
\* node can read have a URL.
C11_UrlKeyFilter ==
    "search_results" \in DOMAIN state =>
        /\ \A i \in 1..Len(state.search_results) :
            /\ "not_a_dict" \notin DOMAIN state.search_results[i]
            /\ "url" \in DOMAIN state.search_results[i]
        /\ AfterWebSearch =>
            \A i \in 1..Len(state.search_results) :
                \E k \in 1..Len(calls) :
                    /\ calls[k].out.kind = "ok"
                    /\ \E r \in 1..Len(calls[k].out.results) :
                        calls[k].out.results[r] = state.search_results[i]

\* The search tool returned an element without a "url" key (a mapping without
\* it, or something that is not a mapping) and search_results is not empty.
C11_Witness ==
    /\ AfterWebSearch
    /\ state.search_results # <<>>
    /\ \E k \in 1..Len(calls) :
        \E r \in 1..Len(calls[k].out.results) :
            calls[k].out.results[r] = NotADict \/ "url" \notin DOMAIN calls[k].out.results[r]

\* The positions of ':', '-' and the en dash in a title.
DelimiterPositions(title) == {k \in 1..Len(title) : title[k] \in {":", "-", EnDash}}

\* C12: title splitting. In a rendered deck, the title of every content slide
\* (slide i, from entry i of slide_contents) has exactly 2 runs when the entry's
\* title holds a ':', '-' or en dash, and they split it at the first such
\* character: the first run is the trimmed text before it, the second is
\* " - " followed by the trimmed text after it, later delimiters included.
\* A title with none of them has exactly 1 run, its trimmed text.
C12_TitleSplit ==
    Rendered =>
        \A i \in 2..Len(state.slide_contents) :
            LET title == state.slide_contents[i].title
                runs == deck.slides[i].title
                at == DelimiterPositions(title)
            IN IF at = {}
               THEN Len(runs) = 1 /\ runs[1].text = strip(title)
               ELSE \E p \in at :
                    /\ \A k \in at : p <= k
                    /\ Len(runs) = 2
                    /\ runs[1].text = strip(SubSeq(title, 1, p - 1))
                    /\ runs[2].text =
                         <<" ", "-", " ">> \o strip(SubSeq(title, p + 1, Len(title)))

\* A rendered content slide whose title holds two delimiters with text
\* between and after them.
C12_Witness ==
    /\ Rendered
    /\ \E i \in 2..Len(state.slide_contents) :
        LET title == state.slide_contents[i].title
        IN /\ Cardinality(DelimiterPositions(title)) >= 2
           /\ title[Len(title)] \notin {":", "-", EnDash, " "}
           /\ title[1] \notin {":", "-", EnDash, " "}

UnknownTheme == state.template_name \notin DOMAIN THEMES \cup DOMAIN THEME_FONTS

\* The deck create_presentation_file writes for the same slides under the
\* explicit theme name "default".
DefaultDeck ==
    create_presentation_file(state.topic, state.presenter_name, "default",
                             state.slide_contents)

\* C13: theme fallback. With a template_name that is a key of neither theme
\* table, the rendered deck uses the 4 colors and the 2 fonts of the theme
\* "default" (white background, black primary, gray 100 secondary, gray 150
\* accent; Segoe UI titles, Calibri body), and its slides are those the
\* explicit name "default" gives.
C13_ThemeFallback ==
    (Rendered /\ UnknownTheme) =>
        LET n == Len(deck.slides)
        IN /\ n >= 3
           /\ \A i \in 1..n : deck.slides[i].background = <<255, 255, 255>>
           /\ deck.slides[1].title.color = <<0, 0, 0>>
           /\ deck.slides[n].title.color = <<100, 100, 100>>
           /\ deck.slides[1].subtitle.color = <<150, 150, 150>>
           /\ deck.slides[1].title.font = "Segoe UI"
           /\ deck.slides[1].subtitle.font = "Calibri"
           /\ deck.slides = DefaultDeck.slides

\* A deck was rendered for a name that is in neither table.
C13_Witness ==
    /\ Rendered
    /\ UnknownTheme
    /\ state.template_name = "minimalist_dark"

StageOrder == <<"expand_queries", "web_search", "plan_content", "summarize_results",
                "generate_slide_content", "create_presentation">>

\* C14: stage ordering. The nodes run so far are the first nodes of the chain
\* expand_queries, web_search, plan_content, summarize_results,
\* generate_slide_content, create_presentation, each once and none skipped;
\* the node to run next is the next of the chain whatever the error field
\* holds; and a run that has ended has run all six and is at END.
C14_StageOrder ==
    /\ Len(trace) <= Len(StageOrder)
    /\ \A i \in 1..Len(trace) : trace[i].node = StageOrder[i]
    /\ ~RunEnded => pc = StageOrder[Len(trace) + 1]
    /\ RunEnded =>
        /\ pc = "END"
        /\ Len(trace) = Len(StageOrder)
        /\ \A i \in 1..Len(trace) : trace[i].result # "raised"

\* The field each node returns as its output.
OutputField ==
    [expand_queries |-> "sub_queries", web_search |-> "search_results",
     plan_content |-> "slide_plan", summarize_results |-> "structured_context",
     generate_slide_content |-> "slide_contents",
     create_presentation |-> "presentation_path"]

\* C15: frame of each stage. A step of node pc adds or changes no field of the
\* state other than the node's output field and error; topic, presenter_name,
\* template_name and every field an earlier node wrote keep their values; and
\* an error message already recorded is never removed or blanked.
C15_Frame ==
    [][ /\ DOMAIN state' \subseteq DOMAIN state \cup {OutputField[pc], "error"}
        /\ \A k \in DOMAIN state :
            /\ k \in DOMAIN state'
            /\ k \notin {OutputField[pc], "error"} => state'[k] = state[k]
        /\ "error" \in DOMAIN state => state'.error # ""
      ]_vars

\* The error recorded by summarize_results is still in the final state, after
\* generate_slide_content and create_presentation wrote their fields.
C15_Witness ==
    /\ pc = "END"
    /\ "error" \in DOMAIN state
    /\ state.error = "Failed to generate structured summary."
    /\ {"slide_contents", "presentation_path", "topic"} \subseteq DOMAIN state

====
